---- MODULE Spec2Model ----
(***************************************************************************)
(* Token-budget-constrained context store (ContextManager), its eviction   *)
(* optimizer (ContextOptimizer) and the window builder (ContextWindow).    *)
(*                                                                         *)
(* Text is modelled by what the code measures of it: a content is a record *)
(* of character counts (plain characters, redundant whitespace, filler     *)
(* words, compression markers) plus the keyword statistics the relevance   *)
(* update reads and the flag the safety checker computes.  Tokens are      *)
(* measured by TokenCounter's character-based estimator (count_tokens with *)
(* no tokenizer loaded).  Scores (Python floats in [0,1]) are fixed-point  *)
(* integers in units of 1/One; the inputs are chosen so that every score   *)
(* computed is exact.  Time is in hours.                                   *)
(***************************************************************************)
EXTENDS Integers, Sequences, FiniteSets, TLC

VARIABLES
    \* ---- ContextManager (the store)
    contexts, context_order,
    system_contexts, conversation_contexts, memory_contexts, tool_contexts,
    stats, now, nextId, ret, disk,
    \* ---- ContextOptimizer.optimize_contexts applied to drawn inputs
    oItems, oTarget, oStrategy, oNow, oPc, oOut, oIn, oMetrics, oOut2,
    \* ---- ContextWindow.build_window applied to drawn inputs
    wSections, wRequired, wMax, wPc, wOut,
    \* ---- ContextWindow._truncate_section run step by step
    tSection, tContent, tQuota, tPc

storeVars == <<contexts, context_order, system_contexts, conversation_contexts,
               memory_contexts, tool_contexts, stats, now, nextId, ret, disk>>
optVars == <<oItems, oTarget, oStrategy, oNow, oPc, oOut, oIn, oMetrics, oOut2>>
truncVars == <<tSection, tContent, tQuota, tPc>>
winVars == <<wSections, wRequired, wMax, wPc, wOut, truncVars>>
vars == <<storeVars, optVars, winVars>>

----------------------------------------------------------------------------
\* Generic helpers

Max(a, b) == IF a >= b THEN a ELSE b
Min(a, b) == IF a <= b THEN a ELSE b

RECURSIVE SumSeq(_)
SumSeq(s) == IF s = <<>> THEN 0 ELSE Head(s) + SumSeq(Tail(s))

\* Lexicographic > on key tuples of equal length (Python tuple comparison).
LexGt(a, b) ==
    \E i \in 1..Len(a) : a[i] > b[i] /\ \A j \in 1..(i - 1) : a[j] = b[j]

\* sorted(s, key=..., reverse=True): descending by key, and stable: elements
\* with equal keys keep their original order.  keys[i] is the key of s[i].
SortDesc(s, keys) ==
    LET n == Len(s)
        rank(i) == 1 + Cardinality({j \in 1..n :
                          LexGt(keys[j], keys[i]) \/ (keys[j] = keys[i] /\ j < i)})
    IN  [r \in 1..n |-> s[CHOOSE i \in 1..n : rank(i) = r]]

----------------------------------------------------------------------------
\* Program constants

One == 1000000                \* the float 1.0 in fixed point
None == -1                    \* Python None for an optional time
ModelLimit == 200000          \* model_limits["claude-3-sonnet-20241022"]
DefaultBuffer == 500          \* truncate_to_limit(buffer=500)
CompressedMarkerLen == 19     \* len("\n[...compressed...]")
TruncatedMarkerLen == 18      \* len("\n[...truncated...]")
FillerWordLen == 4            \* len("very")
OptMaxTokens == 100000        \* ContextOptimizer(max_tokens=100000)
MaxAgeHours == 168            \* config['max_age_hours']
RelevanceThreshold == 500000  \* config['relevance_threshold'] = 0.5
MinCompressRoom == 100        \* "remaining > 100"
MinUsefulSize == 50           \* "max_tokens < 50"
HighPriority == 8             \* "context.priority < 8"
ResponseBuffer == 4000        \* ContextWindow.response_buffer
DefaultSectionPriority == 5   \* section_priorities.get(name, 5)

----------------------------------------------------------------------------
\* Text and TokenCounter

\* A content: chars plain characters, ws characters that whitespace
\* collapsing removes, fill characters of filler words ("very"), mark
\* compression markers appended, kw occurrences of the keyword `word` (a word
\* longer than 3 characters), unsafe: a dangerous pattern occurs in it.
Content(chars, ws, fill, word, kw, unsafe) ==
    [chars |-> chars, ws |-> ws, fill |-> fill, mark |-> 0,
     word |-> word, kw |-> kw, unsafe |-> unsafe]

TextLen(c) == c.chars + c.ws + c.fill + CompressedMarkerLen * c.mark

\* TokenCounter.count_tokens on a text of n characters, estimator branch.
CountLen(n) == IF n = 0 THEN 0 ELSE Max(1, n \div 4)

CountTokens(c) == CountLen(TextLen(c))

\* TokenCounter.truncate_to_limit on a text of n characters: the text itself
\* when it is within the model limit, else the longest prefix within it (what
\* the binary search converges to; no sentence or word boundary in its tail).
TruncateLenToLimit(n, buffer) ==
    LET limit == ModelLimit - buffer
    IN  IF CountLen(n) <= limit THEN n ELSE 4 * limit + 3

\* Validator.is_safe_string
IsSafeString(c) == ~c.unsafe

----------------------------------------------------------------------------
\* ContextItem

Item(id, content, type, priority, timestamp, relevance, expiry, tags) ==
    [id |-> id, content |-> content, type |-> type, priority |-> priority,
     timestamp |-> timestamp, token_count |-> CountTokens(content),
     relevance_score |-> relevance, expiry |-> expiry, tags |-> tags]

\* ContextItem.is_expired at time t
IsExpired(ctx, t) == ctx.expiry # None /\ t > ctx.expiry

TotalTokens(s) == SumSeq([i \in 1..Len(s) |-> s[i].token_count])

----------------------------------------------------------------------------
\* ContextOptimizer

Strategies == {"priority_based", "recency_based", "relevance_based",
               "compression", "semantic_grouping", "hybrid"}

\* Every strategy returns [out |-> the selected items, inp |-> the input
\* items as the call leaves them] (the relevance updates are in place).

\* (mutant) the greedy loop skipping an item that does not fit
RECURSIVE FillPrefix_NoBreak(_, _, _, _)
FillPrefix_NoBreak(s, i, cur, target) ==
    IF i > Len(s) THEN <<>>
    ELSE IF cur + s[i].token_count <= target
         THEN <<s[i]>> \o FillPrefix_NoBreak(s, i + 1, cur + s[i].token_count, target)
         ELSE FillPrefix_NoBreak(s, i + 1, cur, target)

\* for context in sorted: if it fits, append; else break
RECURSIVE FillPrefix(_, _, _, _)
FillPrefix(s, i, cur, target) ==
    IF i > Len(s) THEN <<>>
    ELSE IF cur + s[i].token_count <= target
         THEN <<s[i]>> \o FillPrefix(s, i + 1, cur + s[i].token_count, target)
         ELSE <<>>

PriorityKeys(s) == [i \in 1..Len(s) |-> <<s[i].priority, s[i].timestamp>>]

OptimizeByPriority(cs, target) ==
    [out |-> FillPrefix(SortDesc(cs, PriorityKeys(cs)), 1, 0, target), inp |-> cs]

OptimizeByRecency(cs, target) ==
    [out |-> FillPrefix(SortDesc(cs, [i \in 1..Len(cs) |-> <<cs[i].timestamp>>]),
                        1, 0, target),
     inp |-> cs]

\* _update_relevance_scores: the frequency of a word over all contents, and
\* per item the sum of the frequencies of its words longer than 3 characters.
FillerCount(c) == c.fill \div FillerWordLen
WordFrequency(cs, w) ==
    SumSeq([i \in 1..Len(cs) |->
              IF cs[i].content.word = w THEN cs[i].content.kw ELSE 0])
FillerFrequency(cs) == SumSeq([i \in 1..Len(cs) |-> FillerCount(cs[i].content)])
MarkerFrequency(cs) == SumSeq([i \in 1..Len(cs) |-> cs[i].content.mark])
FrequencyScore(cs, c) ==
    LET raw == c.kw * WordFrequency(cs, c.word)
               + FillerCount(c) * FillerFrequency(cs)
               + c.mark * MarkerFrequency(cs)
    IN  (Min(raw, 100) * One) \div 100   \* min(1.0, raw / 100)
UpdateRelevanceScores(cs) ==
    [i \in 1..Len(cs) |->
        [cs[i] EXCEPT !.relevance_score =
            (@ + FrequencyScore(cs, cs[i].content)) \div 2]]

RECURSIVE RelevanceFill(_, _, _, _)
RelevanceFill(s, i, cur, target) ==
    IF i > Len(s) THEN <<>>
    ELSE LET take == s[i].relevance_score >= RelevanceThreshold
                     /\ cur + s[i].token_count <= target
             cur2 == IF take THEN cur + s[i].token_count ELSE cur
             rest == IF cur2 >= target THEN <<>>
                     ELSE RelevanceFill(s, i + 1, cur2, target)
         IN  (IF take THEN <<s[i]>> ELSE <<>>) \o rest

OptimizeByRelevance(cs, target) ==
    LET upd == UpdateRelevanceScores(cs)
        srt == SortDesc(upd, [i \in 1..Len(upd) |-> <<upd[i].relevance_score>>])
    IN  [out |-> RelevanceFill(srt, 1, 0, target), inp |-> upd]

\* _compress_content: the compressed content, or NoContent for Python's None.
NoContent == [chars |-> -1, ws |-> 0, fill |-> 0, mark |-> 0,
              word |-> "", kw |-> 0, unsafe |-> FALSE]
Falsy(c) == c = NoContent \/ TextLen(c) = 0

CompressContent(c, max_tokens) ==
    IF CountTokens(c) <= max_tokens THEN c
    ELSE LET stripped == [c EXCEPT !.ws = 0, !.fill = 0]
             cut == [stripped EXCEPT !.chars =
                        TruncateLenToLimit(TextLen(stripped), DefaultBuffer)
                        - CompressedMarkerLen * stripped.mark]
             compressed ==
                 IF CountTokens(stripped) > max_tokens
                 THEN IF TextLen(cut) < TextLen(c)
                      THEN [cut EXCEPT !.mark = @ + 1] ELSE cut
                 ELSE stripped
         IN  IF CountTokens(compressed) <= max_tokens THEN compressed ELSE NoContent

\* The compressed copy built by _optimize_by_compression (no penalty).
CompressedCopy(ctx, compressed) ==
    [ctx EXCEPT !.content = compressed,
                !.token_count = CountTokens(compressed),
                !.tags = @ \o <<"compressed">>]

\* (mutant) the compression loop going on to later items after an overflow
RECURSIVE CompressionFill_NoBreak(_, _, _, _)
CompressionFill_NoBreak(s, i, cur, target) ==
    IF i > Len(s) THEN <<>>
    ELSE IF cur + s[i].token_count <= target
         THEN <<s[i]>> \o CompressionFill_NoBreak(s, i + 1, cur + s[i].token_count, target)
         ELSE CompressionFill_NoBreak(s, i + 1, cur, target)

\* (mutant) the compression loop going on after it compressed an item
RECURSIVE CompressionFill_GoOn(_, _, _, _)
CompressionFill_GoOn(s, i, cur, target) ==
    IF i > Len(s) THEN <<>>
    ELSE IF cur + s[i].token_count <= target
         THEN <<s[i]>> \o CompressionFill_GoOn(s, i + 1, cur + s[i].token_count, target)
         ELSE LET remaining == target - cur
                  compressed == CompressContent(s[i].content, remaining)
              IN  IF remaining > MinCompressRoom /\ ~Falsy(compressed)
                  THEN <<CompressedCopy(s[i], compressed)>>
                       \o CompressionFill_GoOn(s, i + 1,
                              cur + CountTokens(compressed), target)
                  ELSE <<>>

RECURSIVE CompressionFill(_, _, _, _)
CompressionFill(s, i, cur, target) ==
    IF i > Len(s) THEN <<>>
    ELSE IF cur + s[i].token_count <= target
         THEN <<s[i]>> \o CompressionFill(s, i + 1, cur + s[i].token_count, target)
         ELSE LET remaining == target - cur
                  compressed == CompressContent(s[i].content, remaining)
              IN  IF remaining > MinCompressRoom /\ ~Falsy(compressed)
                  THEN <<CompressedCopy(s[i], compressed)>>
                  ELSE <<>>

\* (mutant) the compression strategy compressing the input item in place
OptimizeByCompression_InPlace(cs, target) ==
    LET out == CompressionFill(SortDesc(cs, PriorityKeys(cs)), 1, 0, target)
    IN  [out |-> out,
         inp |-> [i \in 1..Len(cs) |->
                     IF \E k \in 1..Len(out) : out[k].id = cs[i].id
                     THEN out[CHOOSE k \in 1..Len(out) : out[k].id = cs[i].id]
                     ELSE cs[i]]]

OptimizeByCompression(cs, target) ==
    [out |-> CompressionFill(SortDesc(cs, PriorityKeys(cs)), 1, 0, target),
     inp |-> cs]
\* _group_contexts_semantically: the group key is the string made of the
\* type and the sorted tags; groups come in order of first occurrence (dict
\* order).
TagRank(t) ==
    CASE t = "compressed" -> 1 [] t = "t" -> 2 [] t = "u" -> 3 [] OTHER -> 4
SortedTags(tags) ==
    LET n == Len(tags)
        rank(i) == 1 + Cardinality({j \in 1..n :
                          TagRank(tags[j]) < TagRank(tags[i])
                          \/ (TagRank(tags[j]) = TagRank(tags[i]) /\ j < i)})
    IN  [r \in 1..n |-> tags[CHOOSE i \in 1..n : rank(i) = r]]
\* '_'.join(key_parts): the parts written one after the other, "_" between
RECURSIVE JoinUnderscore(_)
JoinUnderscore(parts) ==
    IF Len(parts) = 1 THEN parts[1]
    ELSE parts[1] \o "_" \o JoinUnderscore(Tail(parts))
GroupKey(ctx) == JoinUnderscore(<<ctx.type>> \o SortedTags(ctx.tags))

\* The indices of cs that open a group, in order, and a group's members.
GroupFirsts(cs) ==
    SelectSeq([i \in 1..Len(cs) |-> i],
              LAMBDA i : \A j \in 1..(i - 1) : GroupKey(cs[j]) # GroupKey(cs[i]))
GroupMembers(cs, first) ==
    SelectSeq(cs, LAMBDA c : GroupKey(c) = GroupKey(cs[first]))

\* max(group, key=...): the first member whose key no member's key exceeds.
SemanticKey(c) == <<c.priority, c.relevance_score, c.timestamp>>
BestOf(group) ==
    group[CHOOSE i \in 1..Len(group) :
            /\ \A j \in 1..Len(group) : ~LexGt(SemanticKey(group[j]), SemanticKey(group[i]))
            /\ \A j \in 1..(i - 1) : LexGt(SemanticKey(group[i]), SemanticKey(group[j]))]
MaxPriority(group) ==
    CHOOSE p \in {group[i].priority : i \in 1..Len(group)} :
        \A i \in 1..Len(group) : group[i].priority <= p

OptimizeBySemanticGrouping(cs, target) ==
    LET firsts == GroupFirsts(cs)
        groups == [g \in 1..Len(firsts) |-> GroupMembers(cs, firsts[g])]
        ordered == SortDesc(groups, [g \in 1..Len(groups) |-> <<MaxPriority(groups[g])>>])
        bests == [g \in 1..Len(ordered) |-> BestOf(ordered[g])]
    IN  [out |-> FillPrefix(bests, 1, 0, target), inp |-> cs]

\* (mutant) the age filter without the exemption of system items
IsActive_NoSystemExemption(ctx, t) ==
    /\ ~IsExpired(ctx, t)
    /\ ~(ctx.priority < HighPriority /\ t - ctx.timestamp > MaxAgeHours)

\* _filter_active_contexts at time t
IsActive(ctx, t) ==
    /\ ~IsExpired(ctx, t)
    /\ ~(ctx.type # "system" /\ ctx.priority < HighPriority
         /\ t - ctx.timestamp > MaxAgeHours)
FilterActiveContexts(cs, t) == SelectSeq(cs, LAMBDA c : IsActive(c, t))

\* _calculate_composite_scores
TypeBonus(type) ==
    CASE type = "system" -> One
      [] type = "instructions" -> (9 * One) \div 10
      [] type = "conversation" -> (7 * One) \div 10
      [] type = "memory" -> (6 * One) \div 10
      [] type = "tool_result" -> (5 * One) \div 10
      [] OTHER -> (5 * One) \div 10
\* (mutant) the composite score without its priority term
CompositeScore_NoPriority(ctx, t) ==
    LET age_hours == t - ctx.timestamp
        recency_score == Max(0, One - (age_hours * One) \div MaxAgeHours)
    IN  (recency_score * 3) \div 10
        + (ctx.relevance_score * 2) \div 10 + TypeBonus(ctx.type) \div 10
RecencyWeight10 == 3          \* config['recency_weight'] = 0.3, in tenths
\* (mutant) the composite score with the priority not scaled to 0..1
CompositeScore_RawPriority(ctx, t) ==
    LET age_hours == t - ctx.timestamp
        recency_score == Max(0, One - (age_hours * One) \div MaxAgeHours)
        priority_score == ctx.priority * One
    IN  (priority_score * 4) \div 10 + (recency_score * RecencyWeight10) \div 10
        + (ctx.relevance_score * 2) \div 10 + TypeBonus(ctx.type) \div 10
CompositeScore(ctx, t) ==
    LET age_hours == t - ctx.timestamp
        recency_score == Max(0, One - (age_hours * One) \div MaxAgeHours)
        priority_score == (ctx.priority * One) \div 10
    IN  (priority_score * 4) \div 10 + (recency_score * RecencyWeight10) \div 10
        + (ctx.relevance_score * 2) \div 10 + TypeBonus(ctx.type) \div 10
WithCompositeScore(ctx, t) == [ctx EXCEPT !.relevance_score = CompositeScore(ctx, t)]
CalculateCompositeScores(cs, t) ==
    LET scored == [i \in 1..Len(cs) |-> WithCompositeScore(cs[i], t)]
    IN  SortDesc(scored, [i \in 1..Len(scored) |-> <<scored[i].relevance_score>>])

\* _try_compress_context: <<>> for None, else the compressed copy.
TryCompressContext(ctx, max_tokens) ==
    LET compressed == CompressContent(ctx.content, max_tokens)
    IN  IF max_tokens < MinUsefulSize \/ Falsy(compressed) THEN <<>>
        ELSE <<[ctx EXCEPT !.content = compressed,
                           !.priority = Max(1, @ - 1),
                           !.token_count = CountTokens(compressed),
                           !.relevance_score = (@ * 9) \div 10,
                           !.tags = @ \o <<"compressed">>]>>

\* The selection loop of _optimize_hybrid: the break is in the elif branch only.
RECURSIVE HybridFill(_, _, _, _)
HybridFill(s, i, cur, remaining) ==
    IF i > Len(s) THEN <<>>
    ELSE IF cur + s[i].token_count <= remaining
         THEN <<s[i]>> \o HybridFill(s, i + 1, cur + s[i].token_count, remaining)
         ELSE IF remaining - cur > MinCompressRoom
              THEN TryCompressContext(s[i], remaining - cur)
              ELSE HybridFill(s, i + 1, cur, remaining)

OptimizeHybrid(cs, target, t) ==
    LET active == FilterActiveContexts(cs, t)
        system == SelectSeq(active, LAMBDA c : c.type = "system")
        non_system == SelectSeq(active, LAMBDA c : c.type # "system")
        system_tokens == TotalTokens(system)
        remaining_tokens == target - system_tokens
        scored == CalculateCompositeScores(non_system, t)
        \* the in-place score update reaches the active non-system items only
        touched == [i \in 1..Len(cs) |->
                       IF IsActive(cs[i], t) /\ cs[i].type # "system"
                       THEN WithCompositeScore(cs[i], t) ELSE cs[i]]
    IN  IF remaining_tokens <= 0
        THEN [out |-> system, inp |-> cs]
        ELSE [out |-> system \o HybridFill(scored, 1, system_tokens, remaining_tokens),
              inp |-> touched]

\* OptimizationMetrics (__post_init__ computes the ratio); ran tells whether
\* a strategy ran (optimization_time is 0.0 when none did).
Metrics(tokens_before, tokens_after, items_before, items_after, strategy, ran) ==
    [tokens_before |-> tokens_before, tokens_after |-> tokens_after,
     items_before |-> items_before, items_after |-> items_after,
     strategy_used |-> strategy, timed |-> ran,
     \* 1 - tokens_after / tokens_before as <<numerator, denominator>>
     compression_ratio |->
        IF tokens_before > 0
        THEN <<tokens_before - tokens_after, tokens_before>> ELSE <<0, 1>>]

\* target_tokens or int(self.max_tokens * 0.9)
EffectiveTarget(target, max_tokens) ==
    IF target = 0 THEN (max_tokens * 9) \div 10 ELSE target

RunStrategy(cs, target, strategy, t) ==
    CASE strategy = "priority_based" -> OptimizeByPriority(cs, target)
      [] strategy = "recency_based" -> OptimizeByRecency(cs, target)
      [] strategy = "relevance_based" -> OptimizeByRelevance(cs, target)
      [] strategy = "compression" -> OptimizeByCompression(cs, target)
      [] strategy = "semantic_grouping" -> OptimizeBySemanticGrouping(cs, target)
      [] OTHER -> OptimizeHybrid(cs, target, t)

\* (mutant) no early return: the strategy always runs
NeedsOptimization_Always(cs, target) == TRUE

\* optimize_contexts: [out, inp, metrics]
NeedsOptimization(cs, target) == TotalTokens(cs) > EffectiveTarget(target, OptMaxTokens)

\* (mutant) optimize_contexts without the early return
OptimizeContexts_NoEarlyReturn(cs, target, strategy, t) ==
    LET r == RunStrategy(cs, EffectiveTarget(target, OptMaxTokens), strategy, t)
    IN  [out |-> r.out, inp |-> r.inp,
         metrics |-> Metrics(TotalTokens(cs), TotalTokens(r.out), Len(cs),
                             Len(r.out), strategy, TRUE)]

OptimizeContexts(cs, target, strategy, t) ==
    LET target_tokens == EffectiveTarget(target, OptMaxTokens)
        tokens_before == TotalTokens(cs)
        r == RunStrategy(cs, target_tokens, strategy, t)
    IN  IF ~NeedsOptimization(cs, target)
        THEN [out |-> cs, inp |-> cs,
              metrics |-> Metrics(tokens_before, tokens_before, Len(cs), Len(cs),
                                  "none", FALSE)]
        ELSE [out |-> r.out, inp |-> r.inp,
              metrics |-> Metrics(tokens_before, TotalTokens(r.out), Len(cs),
                                  Len(r.out), strategy, TRUE)]
----------------------------------------------------------------------------
\* Initial values of the three components

EmptyStats == [total_items |-> 0, total_tokens |-> 0,
               items_by_type |-> <<>>, last_optimization |-> None]

\* the snapshot file when there is none, and when it cannot be parsed
NoFile == [state |-> "missing", contexts |-> <<>>, context_order |-> <<>>,
           stats |-> EmptyStats]
CorruptFile == [NoFile EXCEPT !.state = "corrupt"]

StoreInit ==
    /\ contexts = <<>>
    /\ context_order = <<>>
    /\ system_contexts = <<>>
    /\ conversation_contexts = <<>>
    /\ memory_contexts = <<>>
    /\ tool_contexts = <<>>
    /\ stats = EmptyStats
    /\ now = 0
    /\ nextId = 1
    /\ ret = [op |-> "init", value |-> TRUE, arg |-> 0]
    /\ disk = NoFile

OptIdle ==
    /\ oItems = <<>> /\ oTarget = 0 /\ oStrategy = "hybrid" /\ oNow = 0
    /\ oPc = "idle" /\ oOut = <<>> /\ oIn = <<>> /\ oMetrics = <<>> /\ oOut2 = <<>>

TruncIdle ==
    /\ tSection = 0 /\ tContent = 0 /\ tQuota = 0 /\ tPc = "idle"
BuildIdle ==
    /\ wSections = <<>> /\ wRequired = {} /\ wMax = 0 /\ wPc = "idle" /\ wOut = <<>>
WinIdle == BuildIdle /\ TruncIdle

----------------------------------------------------------------------------
\* The optimizer applied to drawn inputs (optimize_contexts is a function of
\* the item list, the target, the strategy and "now").

MaxItems == 3

OptNows == {300}
Targets == {0, 200, 600, 1000}

Text800 == Content(3200, 0, 0, "alpha", 2, FALSE)
Text500 == Content(2000, 0, 0, "beta", 2, FALSE)
Text400 == Content(1600, 0, 0, "alpha", 1, FALSE)
Text250 == Content(600, 200, 200, "beta", 3, FALSE)   \* 150 tokens once stripped
Text120 == Content(480, 0, 0, "gamma", 2, FALSE)
Text40 == Content(160, 0, 0, "gamma", 1, FALSE)

\* The items an input list is drawn from, for "now" t; the id is the position
\* in the list.  A, B, C are the items of the documented scenario.
Catalogue(id, t) ==
    { Item(id, Text800, "system", 9, t, One, None, <<>>),                    \* A
      Item(id, Text500, "conversation", 5, t, One, None, <<>>),              \* B
      Item(id, Text500, "conversation", 3, t, One, None, <<>>),
      Item(id, Text400, "memory", 3, t, One, None, <<>>),                    \* C
      Item(id, Text250, "conversation", 5, t - 84, One \div 2, None, <<"t">>),
      Item(id, Text40, "memory", 9, t - 210, One, None, <<"u", "t">>),       \* old
      Item(id, Text40, "memory", 5, t - 210, One, None, <<"t_u">>),
      Item(id, Text120, "conversation", 9, t - 42, One, t - 1, <<"t">>),     \* expired
      Item(id, Text120, "conversation", 5, t - 42, One, t - 1, <<"t">>),
      Item(id, Text40, "system", 3, t - 210, One, t + 1, <<>>) }

InputLists(t) ==
    UNION { { s \in [1..n -> UNION {Catalogue(i, t) : i \in 1..n}] :
                \A i \in 1..n : s[i].id = i } : n \in 0..MaxItems }

InitOpt ==
    /\ StoreInit /\ WinIdle
    /\ oNow \in OptNows
    /\ oItems \in InputLists(oNow)
    /\ oTarget \in Targets
    /\ oStrategy \in Strategies
    /\ oPc = "input" /\ oOut = <<>> /\ oIn = <<>> /\ oMetrics = <<>> /\ oOut2 = <<>>

\* optimize(items, target, strategy)
Optimize ==
    /\ oPc = "input"
    /\ LET r == OptimizeContexts(oItems, oTarget, oStrategy, oNow)
       IN  oOut' = r.out /\ oIn' = r.inp /\ oMetrics' = r.metrics
    /\ oPc' = "done"
    /\ UNCHANGED <<oItems, oTarget, oStrategy, oNow, oOut2, storeVars, winVars>>

\* optimize(selected, target, strategy) on the items the first call selected
OptimizeAgain ==
    /\ oPc = "done"
    /\ oOut2' = OptimizeContexts(oOut, oTarget, oStrategy, oNow).out
    /\ oPc' = "done2"
    /\ UNCHANGED <<oItems, oTarget, oStrategy, oNow, oOut, oIn, oMetrics,
                   storeVars, winVars>>

NextOpt == Optimize \/ OptimizeAgain

SpecOpt == InitOpt /\ [][NextOpt]_vars
----------------------------------------------------------------------------
\* Properties of the optimizer (checked under SpecOpt)

Ids(s) == {s[i].id : i \in 1..Len(s)}
SystemTokens(s) == TotalTokens(SelectSeq(s, LAMBDA c : c.type = "system"))
HybridRan == oPc = "done" /\ oStrategy = "hybrid" /\ NeedsOptimization(oItems, oTarget)

\* C1: for every strategy and every target >= 0, when the system-typed items
\* of the input do not alone exceed the target, the selected items' token
\* counts sum to at most the target.
C1_BudgetInvariant ==
    (oPc = "done" /\ SystemTokens(oItems) <= oTarget)
        => TotalTokens(oOut) <= oTarget

\* C3: under hybrid, when the highest-scored non-system item not yet selected
\* does not fit and the room left (target minus everything selected, system
\* items included) exceeds 100, that item is returned compressed to at most
\* the room, tagged 'compressed', and every lower-ranked item is dropped.
RECURSIVE FirstOverflow(_, _, _, _)
FirstOverflow(s, i, cur, target) ==
    IF i > Len(s) THEN [idx |-> 0, room |-> target - cur]
    ELSE IF cur + s[i].token_count <= target
         THEN FirstOverflow(s, i + 1, cur + s[i].token_count, target)
         ELSE [idx |-> i, room |-> target - cur]
C3_BoundaryCompressed ==
    HybridRan =>
        LET active == FilterActiveContexts(oItems, oNow)
            scored == CalculateCompositeScores(
                          SelectSeq(active, LAMBDA c : c.type # "system"), oNow)
            b == FirstOverflow(scored, 1, SystemTokens(active), oTarget)
        IN  (b.idx # 0 /\ b.room > MinCompressRoom) =>
                /\ \E k \in 1..Len(oOut) :
                      /\ oOut[k].id = scored[b.idx].id
                      /\ oOut[k].token_count <= b.room
                      /\ \E g \in 1..Len(oOut[k].tags) : oOut[k].tags[g] = "compressed"
                /\ \A j \in (b.idx + 1)..Len(scored) : scored[j].id \notin Ids(oOut)

\* C6: optimizing the items a previous call selected, with the same target,
\* strategy and "now", returns exactly those items again.
C6_Idempotent == oPc = "done2" => oOut2 = oOut
C6_Witness ==
    /\ oPc = "done2" /\ NeedsOptimization(oItems, oTarget)
    /\ oOut # <<>> /\ oOut2 = oOut
    /\ \E k \in 1..Len(oOut) : oOut[k] \notin {oItems[i] : i \in 1..Len(oItems)}

\* C7: two items equal in every attribute except priority and a target that
\* fits only one of them: hybrid returns the higher-priority item.
PriorityPair(hi, lo) ==
    /\ Len(oItems) = 2 /\ {hi, lo} = {1, 2}
    /\ oItems[hi].priority > oItems[lo].priority
    /\ [oItems[hi] EXCEPT !.priority = 0, !.id = 0]
         = [oItems[lo] EXCEPT !.priority = 0, !.id = 0]
    /\ oItems[hi].token_count <= oTarget
    /\ oTarget < oItems[hi].token_count + oItems[lo].token_count
C8_SystemRetained ==
    HybridRan =>
        \A i \in 1..Len(oItems) :
            (oItems[i].type = "system" /\ ~IsExpired(oItems[i], oNow))
                => \E k \in 1..Len(oOut) : oOut[k] = oItems[i]
C8_Witness ==
    /\ HybridRan
    /\ \E i \in 1..Len(oItems) :
          /\ oItems[i].type = "system" /\ ~IsExpired(oItems[i], oNow)
          /\ \E k \in 1..Len(oOut) : oOut[k] = oItems[i]
    /\ TotalTokens(oOut) > oTarget
----------------------------------------------------------------------------
\* ContextManager (the store).  A store value is the record
\* [contexts, context_order, system, conversation, memory, tool, stats];
\* contexts maps ids to items, and its iteration order (dict insertion
\* order) is ascending id, ids being handed out in increasing order.

StoreMaxTokens == 1000        \* ContextManager(agent_id, max_tokens=1000)

Store ==
    [contexts |-> contexts, context_order |-> context_order,
     system |-> system_contexts, conversation |-> conversation_contexts,
     memory |-> memory_contexts, tool |-> tool_contexts, stats |-> stats]

\* list(self.contexts.values())
RECURSIVE SeqOfSet(_)
SeqOfSet(S) ==
    IF S = {} THEN <<>>
    ELSE LET m == CHOOSE x \in S : \A y \in S : x <= y
         IN  <<m>> \o SeqOfSet(S \ {m})
Values(ctxs) == LET keys == SeqOfSet(DOMAIN ctxs)
                IN  [i \in 1..Len(keys) |-> ctxs[keys[i]]]

\* get_total_tokens
GetTotalTokens(ctxs) == TotalTokens(Values(ctxs))

\* _update_stats
UpdateStats(ctxs, old) ==
    LET vals == Values(ctxs)
        types == {vals[i].type : i \in 1..Len(vals)}
    IN  [total_items |-> Cardinality(DOMAIN ctxs),
         total_tokens |-> GetTotalTokens(ctxs),
         items_by_type |->
            [ty \in types |-> Cardinality({id \in DOMAIN ctxs : ctxs[id].type = ty})],
         last_optimization |-> old.last_optimization]

\* list.append / list.remove (the first occurrence)
RemoveFirst(s, x) ==
    IF \E i \in 1..Len(s) : s[i] = x
    THEN LET p == CHOOSE i \in 1..Len(s) : s[i] = x /\ \A j \in 1..(i - 1) : s[j] # x
         IN  SubSeq(s, 1, p - 1) \o SubSeq(s, p + 1, Len(s))
    ELSE s

\* _categorize_context
CategorizeContext(S, ctx) ==
    CASE ctx.type = "system" -> [S EXCEPT !.system = Append(@, ctx.id)]
      [] ctx.type \in {"user", "assistant"} ->
            [S EXCEPT !.conversation = Append(@, ctx.id)]
      [] ctx.type = "memory" -> [S EXCEPT !.memory = Append(@, ctx.id)]
      [] ctx.type = "tool_result" -> [S EXCEPT !.tool = Append(@, ctx.id)]
      [] OTHER -> S

\* remove_context
RemoveContextFrom(S, id) ==
    IF id \in DOMAIN S.contexts
    THEN LET ctxs == [k \in DOMAIN S.contexts \ {id} |-> S.contexts[k]]
         IN  [contexts |-> ctxs,
              context_order |-> RemoveFirst(S.context_order, id),
              system |-> RemoveFirst(S.system, id),
              conversation |-> RemoveFirst(S.conversation, id),
              memory |-> RemoveFirst(S.memory, id),
              tool |-> RemoveFirst(S.tool, id),
              stats |-> UpdateStats(ctxs, S.stats)]
    ELSE S

RECURSIVE RemoveAll(_, _)
RemoveAll(S, ids) ==
    IF ids = {} THEN S
    ELSE LET id == CHOOSE x \in ids : TRUE
         IN  RemoveAll(RemoveContextFrom(S, id), ids \ {id})

\* (mutant) the purge taking every item that has an expiry, due or not
RemoveExpiredContexts_AnyExpiry(S, t) ==
    RemoveAll(S, {id \in DOMAIN S.contexts : S.contexts[id].expiry # None})

\* _remove_expired_contexts at time t
RemoveExpiredContexts(S, t) ==
    RemoveAll(S, {id \in DOMAIN S.contexts : IsExpired(S.contexts[id], t)})

\* optimize_context(target_tokens) at time t; target 0 stands for None too
OptimizeContextIn(S, target, max_tokens, t) ==
    LET target_tokens == EffectiveTarget(target, max_tokens)
        S1 == RemoveExpiredContexts(S, t)
        vals == Values(S1.contexts)
        keep == FillPrefix(SortDesc(vals, PriorityKeys(vals)), 1, 0, target_tokens)
        S2 == RemoveAll(S1, DOMAIN S1.contexts \ Ids(keep))
    IN  IF GetTotalTokens(S.contexts) <= target_tokens THEN S
        ELSE [S2 EXCEPT !.stats.last_optimization = t]

\* (mutant) add_context without the auto-optimization
AddContextIn_NoOptimize(S, id, content, type, priority, tags, expiry, max_tokens, t) ==
    LET ctx == Item(id, content, type, priority, t, One, expiry, tags)
        ctxs == [k \in DOMAIN S.contexts \cup {id} |->
                    IF k = id THEN ctx ELSE S.contexts[k]]
        S1 == CategorizeContext(
                  [S EXCEPT !.contexts = ctxs,
                            !.context_order = Append(@, id)], ctx)
    IN  [store |-> [S1 EXCEPT !.stats = UpdateStats(ctxs, S.stats)], value |-> id]

\* add_context at time t with the fresh id: the result of is_safe_string is
\* not looked at; [store, value] with value the id returned.
AddContextIn(S, id, content, type, priority, tags, expiry, max_tokens, t) ==
    LET ctx == Item(id, content, type, priority, t, One, expiry, tags)
        ctxs == [k \in DOMAIN S.contexts \cup {id} |->
                    IF k = id THEN ctx ELSE S.contexts[k]]
        S1 == CategorizeContext(
                  [S EXCEPT !.contexts = ctxs,
                            !.context_order = Append(@, id)], ctx)
        S2 == [S1 EXCEPT !.stats = UpdateStats(ctxs, S.stats)]
    IN  [store |-> IF GetTotalTokens(ctxs) > max_tokens
                   THEN OptimizeContextIn(S2, 0, max_tokens, t) ELSE S2,
         value |-> id]

\* update_context(id, <field>=value) for an id in the store: setattr, the
\* token count re-measured only when content is among the fields, the
\* timestamp refreshed, the category lists left as they are.
UpdateContextIn(S, id, field, value, t) ==
    LET old == S.contexts[id]
        set == CASE field = "content" ->
                       [old EXCEPT !.content = value,
                                   !.token_count = CountTokens(value)]
                 [] field = "priority" -> [old EXCEPT !.priority = value]
                 [] field = "expiry" -> [old EXCEPT !.expiry = value]
                 [] field = "type" -> [old EXCEPT !.type = value]
                 [] field = "token_count" -> [old EXCEPT !.token_count = value]
                 [] field = "relevance_score" -> [old EXCEPT !.relevance_score = value]
                 [] field = "id" -> [old EXCEPT !.id = value]
                 [] OTHER -> old
        ctxs == [S.contexts EXCEPT ![id] = [set EXCEPT !.timestamp = t]]
    IN  [S EXCEPT !.contexts = ctxs, !.stats = UpdateStats(ctxs, S.stats)]

\* clear_context(context_type); "" stands for None
ClearContextIn(S, type) ==
    IF type # ""
    THEN RemoveAll(S, {id \in DOMAIN S.contexts : S.contexts[id].type = type})
    ELSE [contexts |-> <<>>, context_order |-> <<>>, system |-> <<>>,
          conversation |-> <<>>, memory |-> <<>>, tool |-> <<>>,
          stats |-> UpdateStats(<<>>, S.stats)]

\* (mutant) get_context_window without the expiry filter
WindowItems_NoExpiryFilter(ctxs, max_tokens, store_max, t) ==
    LET limit == IF max_tokens = 0 THEN store_max ELSE max_tokens
        all == Values(ctxs)
    IN  FillPrefix(SortDesc(all, PriorityKeys(all)), 1, 0, limit)

\* get_context_window(max_tokens) at time t: the items rendered, in order,
\* and the rendering of one item (_format_context_item).
WindowItems(ctxs, max_tokens, store_max, t) ==
    LET limit == IF max_tokens = 0 THEN store_max ELSE max_tokens
        live == SelectSeq(Values(ctxs), LAMBDA c : ~IsExpired(c, t))
    IN  FillPrefix(SortDesc(live, PriorityKeys(live)), 1, 0, limit)
FormatContextItem(ctx) ==
    [type |-> ctx.type, shown_priority |-> IF ctx.priority > 1 THEN ctx.priority ELSE 0,
     tags |-> ctx.tags, body |-> ctx.content]
GetContextWindow(ctxs, max_tokens, store_max, t) ==
    LET items == WindowItems(ctxs, max_tokens, store_max, t)
    IN  [i \in 1..Len(items) |-> FormatContextItem(items[i])]

\* get_contexts_by_type
GetContextsByType(ctxs, context_type) ==
    SelectSeq(Values(ctxs), LAMBDA c : c.type = context_type)

\* get_contexts_by_priority
GetContextsByPriority(ctxs, min_priority) ==
    LET found == SelectSeq(Values(ctxs), LAMBDA c : c.priority >= min_priority)
    IN  SortDesc(found, PriorityKeys(found))

\* get_recent_contexts(hours, limit) at time t; limit 0 stands for None
GetRecentContexts(ctxs, hours, limit, t) ==
    LET found == SelectSeq(Values(ctxs), LAMBDA c : c.timestamp > t - hours)
        sorted == SortDesc(found, [i \in 1..Len(found) |-> <<found[i].timestamp>>])
    IN  IF limit # 0 THEN SubSeq(sorted, 1, Min(limit, Len(sorted))) ELSE sorted

\* search_contexts(query, context_type, tags) at time t; the query is a
\* word ("" is a substring of every content), "" and <<>> stand for None
SearchContexts(ctxs, query, context_type, tags, t) ==
    LET found ==
            SelectSeq(Values(ctxs),
                LAMBDA c :
                    /\ ~IsExpired(c, t)
                    /\ (context_type = "" \/ c.type = context_type)
                    /\ (tags = <<>> \/ \E i \in 1..Len(tags), j \in 1..Len(c.tags) :
                                          tags[i] = c.tags[j])
                    /\ (query = "" \/ (c.content.kw > 0 /\ c.content.word = query)))
    IN  SortDesc(found, PriorityKeys(found))
\* ---- persistence: save_context / _load_context and the snapshot file.
\* The snapshot file is the record [state, contexts, context_order, stats]:
\* state is "missing", "corrupt" (load_json returns None) or "json";
\* contexts is the JSON object of the items in file order, each entry
\* [key, data, ok] with ok = FALSE when ContextItem.from_dict raises on it.
\* The JSON text of a time t (isoformat, str) is modelled by IsoFormat(t), a
\* value that is no time and not None.
IsoFormat(t) == 0 - (t + 2)
FromIsoFormat(s) == 0 - (s + 2)
IsStr(v) == v < None

EmptyStore ==
    [contexts |-> <<>>, context_order |-> <<>>, system |-> <<>>,
     conversation |-> <<>>, memory |-> <<>>, tool |-> <<>>, stats |-> EmptyStats]

\* ContextItem.to_dict
ToDict(ctx) ==
    [ctx EXCEPT !.timestamp = IsoFormat(@),
                !.expiry = IF @ # None THEN IsoFormat(@) ELSE None]

\* ContextItem.from_dict with __post_init__
FromDict(d) ==
    [d EXCEPT !.timestamp = IF IsStr(@) THEN FromIsoFormat(@) ELSE @,
              !.expiry = IF IsStr(@) THEN FromIsoFormat(@) ELSE @]

\* save_context: the data handed to save_json (json.dump with default=str)
SaveData(S) ==
    LET keys == SeqOfSet(DOMAIN S.contexts)
    IN  [state |-> "json",
         contexts |-> [i \in 1..Len(keys) |->
                          [key |-> keys[i], data |-> ToDict(S.contexts[keys[i]]),
                           ok |-> TRUE]],
         context_order |-> S.context_order,
         stats |-> [S.stats EXCEPT !.last_optimization =
                       IF @ # None THEN IsoFormat(@) ELSE None]]

\* the loop "self.contexts[ctx_id] = ContextItem.from_dict(ctx_data)": the
\* entries before the first one from_dict raises on are in self.contexts
\* when the exception leaves the loop.
RECURSIVE LoadEntries(_, _, _)
LoadEntries(ctxs, entries, i) ==
    IF i > Len(entries) THEN [contexts |-> ctxs, raised |-> FALSE]
    ELSE IF ~entries[i].ok THEN [contexts |-> ctxs, raised |-> TRUE]
    ELSE LoadEntries(
             [k \in DOMAIN ctxs \cup {entries[i].key} |->
                 IF k = entries[i].key THEN FromDict(entries[i].data) ELSE ctxs[k]],
             entries, i + 1)

RECURSIVE CategorizeAll(_, _, _)
CategorizeAll(S, vals, i) ==
    IF i > Len(vals) THEN S
    ELSE CategorizeAll(CategorizeContext(S, vals[i]), vals, i + 1)

\* (mutant) _load_context without "Load order"
LoadContextIn_NoOrder(S, file) ==
    LET loaded == LoadEntries(S.contexts, file.contexts, 1)
        S1 == [S EXCEPT !.contexts = loaded.contexts]
        S2 == [S1 EXCEPT !.stats = file.stats]
    IN  CASE file.state = "missing" -> [store |-> S, value |-> TRUE]
          [] file.state = "corrupt" -> [store |-> S, value |-> FALSE]
          [] loaded.raised -> [store |-> S1, value |-> FALSE]
          [] OTHER -> [store |-> CategorizeAll(S2, Values(S2.contexts), 1),
                       value |-> TRUE]

\* _load_context on the store S being constructed: [store, value]
LoadContextIn(S, file) ==
    LET loaded == LoadEntries(S.contexts, file.contexts, 1)
        S1 == [S EXCEPT !.contexts = loaded.contexts]
        S2 == [S1 EXCEPT !.context_order = file.context_order,
                         !.stats = file.stats]
    IN  CASE file.state = "missing" -> [store |-> S, value |-> TRUE]
          [] file.state = "corrupt" -> [store |-> S, value |-> FALSE]
          [] loaded.raised -> [store |-> S1, value |-> FALSE]
          [] OTHER -> [store |-> CategorizeAll(S2, Values(S2.contexts), 1),
                       value |-> TRUE]

\* ContextManager(agent_id, max_tokens): a fresh store of the same owner
NewContextManager(file) == LoadContextIn(EmptyStore, file)

----------------------------------------------------------------------------
\* The store as a state machine: one action per public operation, "now"
\* advancing between operations.

MaxAdds == 2                  \* ids handed out in one behaviour
MaxTime == 1                  \* hours the clock advances

UnsafeText == Content(1200, 0, 0, "gamma", 1, TRUE)    \* 300 tokens, "<script"

\* add_context arguments: <<content, type, priority, tags, expires>>; an
\* expiring item is given expiry = the time of the add.
AddArgs ==
    { <<Text500, "system", 9, <<>>, FALSE>>,
      <<Text400, "user", 5, <<"t">>, FALSE>>,
      <<Text120, "tool_result", 10, <<>>, TRUE>>,
      <<UnsafeText, "user", 5, <<>>, FALSE>> }
\* update_context arguments: <<field, value>>
UpdateArgs == { <<"content", Text800>> }
\* update_context arguments naming another field than content
FieldArgs == { <<"type", "system">>, <<"token_count", 5>>, <<"priority", 11>>,
               <<"id", 9>> }
\* optimize_context targets (0: the default) and get_context_window bounds
StoreTargets == {0, 500, 1500}
WindowBounds == {0, 450, 1500}
ClearTypes == {"", "user"}

SetStore(S) ==
    /\ contexts' = S.contexts
    /\ context_order' = S.context_order
    /\ system_contexts' = S.system
    /\ conversation_contexts' = S.conversation
    /\ memory_contexts' = S.memory
    /\ tool_contexts' = S.tool
    /\ stats' = S.stats

AddContext ==
    \E a \in AddArgs :
        /\ nextId <= MaxAdds
        /\ LET r == AddContextIn(Store, nextId, a[1], a[2], a[3], a[4],
                                 IF a[5] THEN now ELSE None, StoreMaxTokens, now)
           IN  /\ SetStore(r.store)
               /\ ret' = [op |-> "add", value |-> r.value, arg |-> IsSafeString(a[1])]
        /\ nextId' = nextId + 1
        /\ UNCHANGED <<now, disk, optVars, winVars>>

RemoveContext ==
    \E id \in 1..MaxAdds :
        /\ SetStore(RemoveContextFrom(Store, id))
        /\ ret' = [op |-> "remove", value |-> id \in DOMAIN contexts, arg |-> id]
        /\ UNCHANGED <<now, nextId, disk, optVars, winVars>>

\* get_context: <<item>>, or <<>> for None
GetContext ==
    \E id \in 1..MaxAdds :
        /\ ret' = [op |-> "get",
                   value |-> IF id \in DOMAIN contexts THEN <<contexts[id]>> ELSE <<>>,
                   arg |-> id]
        /\ UNCHANGED <<contexts, context_order, system_contexts, conversation_contexts,
                       memory_contexts, tool_contexts, stats, now, nextId, disk,
                       optVars, winVars>>

\* (mutant) update_context creating the item when the id is unknown
UpdateContext_Upsert ==
    \E id \in 1..MaxAdds, u \in UpdateArgs :
        /\ IF id \in DOMAIN contexts
           THEN SetStore(UpdateContextIn(Store, id, u[1], u[2], now))
           ELSE SetStore(AddContextIn_NoOptimize(Store, id, Text40, "general", 1,
                                                 <<>>, None, StoreMaxTokens, now).store)
        /\ ret' = [op |-> "update", value |-> id \in DOMAIN contexts, arg |-> id]
        /\ UNCHANGED <<now, nextId, disk, optVars, winVars>>

UpdateContext ==
    \E id \in 1..MaxAdds, u \in UpdateArgs :
        /\ IF id \in DOMAIN contexts
           THEN SetStore(UpdateContextIn(Store, id, u[1], u[2], now))
           ELSE SetStore(Store)
        /\ ret' = [op |-> "update", value |-> id \in DOMAIN contexts, arg |-> id]
        /\ UNCHANGED <<now, nextId, disk, optVars, winVars>>

\* update_context naming a field other than content
UpdateField ==
    \E id \in 1..MaxAdds, u \in FieldArgs :
        /\ IF id \in DOMAIN contexts
           THEN SetStore(UpdateContextIn(Store, id, u[1], u[2], now))
           ELSE SetStore(Store)
        /\ ret' = [op |-> "update", value |-> id \in DOMAIN contexts, arg |-> id]
        /\ UNCHANGED <<now, nextId, disk, optVars, winVars>>

OptimizeContext ==
    \E target \in StoreTargets :
        /\ SetStore(OptimizeContextIn(Store, target, StoreMaxTokens, now))
        /\ ret' = [op |-> "optimize", value |-> TRUE, arg |-> target]
        /\ UNCHANGED <<now, nextId, disk, optVars, winVars>>

\* ret.arg is len(expired_ids), the count the purge logs
PurgeExpired ==
    /\ SetStore(RemoveExpiredContexts(Store, now))
    /\ ret' = [op |-> "purge", value |-> TRUE,
               arg |-> Cardinality({k \in DOMAIN contexts : IsExpired(contexts[k], now)})]
    /\ UNCHANGED <<now, nextId, disk, optVars, winVars>>

ClearContext ==
    \E type \in ClearTypes :
        /\ SetStore(ClearContextIn(Store, type))
        /\ ret' = [op |-> "clear", value |-> TRUE, arg |-> type]
        /\ UNCHANGED <<now, nextId, disk, optVars, winVars>>

Tick ==
    /\ now < MaxTime
    /\ now' = now + 1
    /\ ret' = [op |-> "tick", value |-> TRUE, arg |-> 0]
    /\ UNCHANGED <<contexts, context_order, system_contexts, conversation_contexts,
                   memory_contexts, tool_contexts, stats, nextId, disk, optVars, winVars>>

\* save_context
SaveContext ==
    /\ disk' = SaveData(Store)
    /\ ret' = [op |-> "save", value |-> TRUE, arg |-> 0]
    /\ UNCHANGED <<contexts, context_order, system_contexts, conversation_contexts,
                   memory_contexts, tool_contexts, stats, now, nextId,
                   optVars, winVars>>

\* the snapshot file is deleted, made unparseable, or one of its item
\* entries is made malformed (the environment's step)
BadFile(file) ==
    \/ file.state # "json"
    \/ \E i \in 1..Len(file.contexts) : ~file.contexts[i].ok
DamageFile ==
    /\ disk.state = "json"
    /\ \/ disk' \in {NoFile, CorruptFile}
       \/ \E i \in 1..Len(disk.contexts) :
             /\ disk.contexts[i].ok
             /\ disk' = [disk EXCEPT !.contexts[i].ok = FALSE]
    /\ UNCHANGED <<contexts, context_order, system_contexts, conversation_contexts,
                   memory_contexts, tool_contexts, stats, now, nextId, ret,
                   optVars, winVars>>

\* a fresh ContextManager of the same owner is constructed: __init__ with
\* _load_context; ret.arg tells whether the file was missing or damaged
Restart ==
    /\ LET r == NewContextManager(disk)
       IN  /\ SetStore(r.store)
           /\ ret' = [op |-> "load", value |-> r.value, arg |-> BadFile(disk)]
    /\ UNCHANGED <<now, nextId, disk, optVars, winVars>>

Init == StoreInit /\ OptIdle /\ WinIdle

Next ==
    \/ AddContext
    \/ RemoveContext
    \/ GetContext
    \/ UpdateContext
    \/ OptimizeContext
    \/ PurgeExpired
    \/ ClearContext
    \/ Tick

Spec == Init /\ [][Next]_vars

\* The store with its snapshot file: items are added, removed and age, the
\* store is saved, the file is damaged, and a fresh store loads it.
NextDisk ==
    \/ AddContext
    \/ RemoveContext
    \/ Tick
    \/ SaveContext
    \/ DamageFile
    \/ Restart

SpecDisk == Init /\ [][NextDisk]_vars

\* The store with updates of any field: items are added, updated (content
\* or another field), removed, evicted and age.
NextFields ==
    \/ AddContext
    \/ UpdateContext
    \/ UpdateField
    \/ RemoveContext
    \/ OptimizeContext
    \/ Tick

SpecFields == Init /\ [][NextFields]_vars

\* update_context(id, expiry=None): the expiry of an item is taken away
ExpiryArgs == { <<"expiry", None>> }
UpdateExpiry ==
    \E id \in 1..MaxAdds, u \in ExpiryArgs :
        /\ IF id \in DOMAIN contexts
           THEN SetStore(UpdateContextIn(Store, id, u[1], u[2], now))
           ELSE SetStore(Store)
        /\ ret' = [op |-> "update", value |-> id \in DOMAIN contexts, arg |-> id]
        /\ UNCHANGED <<now, nextId, disk, optVars, winVars>>

\* The store with updates of the expiry: items are added, have their expiry
\* removed, and age.
NextExpiry ==
    \/ AddContext
    \/ UpdateExpiry
    \/ Tick

SpecExpiry == Init /\ [][NextExpiry]_vars
----------------------------------------------------------------------------
\* Properties of the store (checked under Spec)

\* the token counts of the non-expired items
LiveTokens ==
    TotalTokens(SelectSeq(Values(contexts), LAMBDA c : ~IsExpired(c, now)))

C14_UnknownIdNoOp ==
    [][(ret'.op \in {"get", "update", "remove"} /\ ret'.arg \notin DOMAIN contexts)
          => (/\ IF ret'.op = "get" THEN ret'.value = <<>> ELSE ret'.value = FALSE
              /\ UNCHANGED <<contexts, context_order, system_contexts,
                             conversation_contexts, memory_contexts,
                             tool_contexts, stats>>)]_vars
\* an unknown id was just handed to update or remove on a non-empty store
C14_Witness ==
    /\ ret.op \in {"update", "remove"} /\ ret.arg \notin DOMAIN contexts
    /\ ret.value = FALSE /\ contexts # <<>>
    /\ stats.total_items = Cardinality(DOMAIN contexts)

\* C4: add with content the safety checker judges unsafe returns the failure
\* signal and leaves the store unchanged (items, order, category lists, stats).
C4_UnsafeAddRejected ==
    [][(ret'.op = "add" /\ ret' # ret /\ ~ret'.arg)
          => (ret'.value = 0
              /\ UNCHANGED <<contexts, context_order, system_contexts,
                             conversation_contexts, memory_contexts,
                             tool_contexts, stats>>)]_vars

\* C5: in every reachable store state, no item whose expiry is in the past is
\* part of the output of get_window, whatever its priority and the bound.
C5_WindowExcludesExpired ==
    \A b \in WindowBounds :
        LET items == WindowItems(contexts, b, StoreMaxTokens, now)
        IN  /\ \A k \in 1..Len(items) : ~IsExpired(items[k], now)
            /\ \A id \in DOMAIN contexts :
                  IsExpired(contexts[id], now) => id \notin Ids(items)
C5_Witness ==
    /\ \E id \in DOMAIN contexts :
          IsExpired(contexts[id], now) /\ contexts[id].priority = 10
    /\ \E b \in WindowBounds : WindowItems(contexts, b, StoreMaxTokens, now) # <<>>
\* the (id, content, type, priority, tags) tuples of a store's items
ItemTuples(ctxs) ==
    { <<ctxs[k].id, ctxs[k].content, ctxs[k].type, ctxs[k].priority, ctxs[k].tags>> :
        k \in DOMAIN ctxs }

\* C12: saving a store and loading the snapshot into a fresh store of the
\* same owner reproduces the same set of (id, content, type, priority, tags)
\* tuples and the same context_order.
C12_SaveLoadRoundTrip ==
    LET loaded == NewContextManager(SaveData(Store)).store
    IN  /\ ItemTuples(loaded.contexts) = ItemTuples(contexts)
        /\ loaded.context_order = context_order
\* a fresh store has just loaded an undamaged snapshot of two items, one
\* of them tagged and one with an expiry
C12_Witness ==
    /\ ret.op = "load" /\ ~ret.arg /\ ret.value
    /\ disk.state = "json" /\ Len(disk.contexts) = 2
    /\ ItemTuples(contexts) =
          {<<e.data.id, e.data.content, e.data.type, e.data.priority, e.data.tags>> :
              e \in {disk.contexts[i] : i \in 1..2}}
    /\ context_order = disk.context_order /\ Len(context_order) = 2
    /\ \E k \in DOMAIN contexts : contexts[k].tags # <<>>
    /\ \E k \in DOMAIN contexts : contexts[k].expiry # None

\* C13: loading a snapshot that is missing, unreadable or corrupt (a file
\* with a malformed item entry after valid ones included) never raises and
\* leaves the store in its default empty state.
C13_BadSnapshotLeavesEmpty ==
    (ret.op = "load" /\ ret.arg) =>
        /\ contexts = <<>> /\ context_order = <<>>
        /\ system_contexts = <<>> /\ conversation_contexts = <<>>
        /\ memory_contexts = <<>> /\ tool_contexts = <<>>
----------------------------------------------------------------------------
\* ContextWindow.  A section's text is modelled by its length in characters.

\* section_priorities.get(name, 5)
SectionPriority(name) ==
    CASE name = "system" -> 10
      [] name = "instructions" -> 9
      [] name = "tools" -> 8
      [] name = "recent_conversation" -> 7
      [] name = "relevant_memory" -> 6
      [] name = "context_data" -> 5
      [] name = "background" -> 4
      [] name = "examples" -> 3
      [] name = "metadata" -> 2
      [] name = "debug" -> 1
      [] OTHER -> DefaultSectionPriority

\* WindowSection; truncated stands for the "_truncated" suffix of the name.
WindowSection(name, len, required) ==
    [name |-> name, truncated |-> FALSE, content |-> len,
     priority |-> SectionPriority(name), token_count |-> CountLen(len),
     required |-> required]

\* the while loop of _truncate_section: cut to 90% until within max_tokens
RECURSIVE ShrinkToFit(_, _)
ShrinkToFit(len, max_tokens) ==
    IF CountLen(len) > max_tokens THEN ShrinkToFit((len * 9) \div 10, max_tokens)
    ELSE len

\* _truncate_section: <<>> for None, else the truncated section
TruncateSection(section, max_tokens) ==
    LET cut == ShrinkToFit(TruncateLenToLimit(section.content, 0), max_tokens)
    IN  IF max_tokens < MinUsefulSize THEN <<>>
        ELSE <<[section EXCEPT
                  !.truncated = TRUE,
                  !.content = IF cut < section.content
                              THEN cut + TruncatedMarkerLen ELSE cut,
                  !.token_count = CountLen(cut)]>>

\* int(max_tokens * (priority / total_priority))
AllocatedTokens(max_tokens, priority, total_priority) ==
    IF max_tokens >= 0 THEN (max_tokens * priority) \div total_priority
    ELSE 0 - (((0 - max_tokens) * priority) \div total_priority)

\* _truncate_sections
RECURSIVE TruncateEach(_, _, _, _)
TruncateEach(sections, i, max_tokens, total_priority) ==
    IF i > Len(sections) THEN <<>>
    ELSE LET s == sections[i]
             allocated == AllocatedTokens(max_tokens, s.priority, total_priority)
         IN  (IF allocated < s.token_count THEN TruncateSection(s, allocated)
              ELSE <<s>>)
             \o TruncateEach(sections, i + 1, max_tokens, total_priority)
TruncateSections(sections, max_tokens) ==
    TruncateEach(sections, 1, max_tokens,
                 SumSeq([i \in 1..Len(sections) |-> sections[i].priority]))

\* (mutant) the loop over the optional sections going on after an overflow
RECURSIVE AddOptional_NoBreak(_, _, _, _)
AddOptional_NoBreak(s, i, cur, max_tokens) ==
    IF i > Len(s) THEN <<>>
    ELSE IF cur + s[i].token_count <= max_tokens
         THEN <<s[i]>> \o AddOptional_NoBreak(s, i + 1, cur + s[i].token_count, max_tokens)
         ELSE AddOptional_NoBreak(s, i + 1, cur, max_tokens)

\* the loop of _optimize_sections over the optional sections
RECURSIVE AddOptional(_, _, _, _)
AddOptional(s, i, cur, max_tokens) ==
    IF i > Len(s) THEN <<>>
    ELSE IF cur + s[i].token_count <= max_tokens
         THEN <<s[i]>> \o AddOptional(s, i + 1, cur + s[i].token_count, max_tokens)
         ELSE IF max_tokens - cur > MinCompressRoom
              THEN TruncateSection(s[i], max_tokens - cur)
              ELSE <<>>

\* _optimize_sections
OptimizeSections(sections, max_tokens) ==
    LET required == SelectSeq(sections, LAMBDA s : s.required)
        optional == SelectSeq(sections, LAMBDA s : ~s.required)
        required_tokens == TotalTokens(required)
        sorted == SortDesc(optional, [i \in 1..Len(optional) |-> <<optional[i].priority>>])
    IN  IF required_tokens > max_tokens
        THEN TruncateSections(required, max_tokens)
        ELSE required \o AddOptional(sorted, 1, required_tokens, max_tokens)

\* _format_window: the sections in display order; a section is rendered as
\* its header (the upper-cased name) and its content.
FormatWindow(sections) ==
    SortDesc(sections, [i \in 1..Len(sections) |-> <<sections[i].priority>>])

\* build_window(sections, required_sections) with self.max_tokens = max_tokens;
\* sections is the dict as a sequence of <<name, length>>.
DefaultRequired == {"system", "instructions"}
AvailableTokens(max_tokens) == max_tokens - ResponseBuffer
BuildWindow(sections, required_sections, max_tokens) ==
    LET required == IF required_sections = {} THEN DefaultRequired
                    ELSE required_sections
        window_sections ==
            [i \in 1..Len(sections) |->
                WindowSection(sections[i][1], sections[i][2],
                              sections[i][1] \in required)]
    IN  FormatWindow(OptimizeSections(window_sections, AvailableTokens(max_tokens)))

\* estimate_context_items_fit(context_items, reserved_tokens) of a window
\* of max_tokens: [items, tokens]
EstimateContextItemsFit(context_items, reserved_tokens, max_tokens) ==
    LET available_tokens == max_tokens - ResponseBuffer - reserved_tokens
        selected == FillPrefix(SortDesc(context_items, PriorityKeys(context_items)),
                               1, 0, available_tokens)
    IN  [items |-> selected, tokens |-> TotalTokens(selected)]

\* build_window applied to drawn inputs
MaxSections == 3

SectionNames == {"system", "context_data", "notes", "debug"}
SectionLengths == {223, 800, 2222, 3600}    \* 55, 200, 555 and 900 tokens
RequiredChoices == { {}, {"context_data", "notes"}, {"system", "debug"} }
WindowSizes == {4040, 4200, 5000}           \* 40, 200 and 1000 tokens available

SectionDicts ==
    UNION { { s \in [1..n -> SectionNames \X SectionLengths] :
                \A i, j \in 1..n : i # j => s[i][1] # s[j][1] } : n \in 0..MaxSections }

InitWin ==
    /\ StoreInit /\ OptIdle
    /\ wSections \in SectionDicts
    /\ wRequired \in RequiredChoices
    /\ wMax \in WindowSizes
    /\ wPc = "input" /\ wOut = <<>>
    /\ TruncIdle

Build ==
    /\ wPc = "input"
    /\ wOut' = BuildWindow(wSections, wRequired, wMax)
    /\ wPc' = "done"
    /\ UNCHANGED <<wSections, wRequired, wMax, truncVars, storeVars, optVars>>

NextWin == Build

SpecWin == InitWin /\ [][NextWin]_vars

----------------------------------------------------------------------------
\* _truncate_section run step by step on drawn inputs: tSection is the
\* length of the section's content, tContent that of truncated_content,
\* tQuota is max_tokens.

TruncLengths == {0, 223, 800, 3600, 40000}
TruncQuotas == {40, 50, 200, 555}

\* (mutant) the round of the loop cutting nothing
ShrinkRound_NoCut ==
    /\ tPc = "loop"
    /\ CountLen(tContent) > tQuota
    /\ tContent' = tContent
    /\ UNCHANGED <<tSection, tQuota, tPc, wSections, wRequired, wMax, wPc, wOut,
                   storeVars, optVars>>

InitTrunc ==
    /\ StoreInit /\ OptIdle /\ BuildIdle
    /\ tSection \in TruncLengths
    /\ tQuota \in TruncQuotas
    /\ tContent = tSection
    /\ tPc = "input"

\* the guard on max_tokens and truncate_to_limit(content, buffer=0)
EnterTruncate ==
    /\ tPc = "input"
    /\ IF tQuota < MinUsefulSize
       THEN tPc' = "none" /\ UNCHANGED tContent
       ELSE tPc' = "loop" /\ tContent' = TruncateLenToLimit(tSection, 0)
    /\ UNCHANGED <<tSection, tQuota, wSections, wRequired, wMax, wPc, wOut,
                   storeVars, optVars>>

\* one round of the while loop: truncated_content[:int(len * 0.9)]
ShrinkRound ==
    /\ tPc = "loop"
    /\ CountLen(tContent) > tQuota
    /\ tContent' = (tContent * 9) \div 10
    /\ UNCHANGED <<tSection, tQuota, tPc, wSections, wRequired, wMax, wPc, wOut,
                   storeVars, optVars>>

\* the loop condition is false: the truncated section is returned
ReturnTruncated ==
    /\ tPc = "loop"
    /\ CountLen(tContent) <= tQuota
    /\ tPc' = "done"
    /\ UNCHANGED <<tSection, tContent, tQuota, wSections, wRequired, wMax, wPc, wOut,
                   storeVars, optVars>>

NextTrunc == EnterTruncate \/ ShrinkRound \/ ReturnTruncated

\* the call runs on: a step that is possible is eventually taken
SpecTrunc == InitTrunc /\ [][NextTrunc]_vars /\ WF_vars(NextTrunc)

----------------------------------------------------------------------------
\* Properties of the window builder (checked under SpecWin)

RequiredNames == IF wRequired = {} THEN DefaultRequired ELSE wRequired
RequiredInputs ==
    SelectSeq(wSections, LAMBDA s : s[1] \in RequiredNames)
RequiredTokens ==
    SumSeq([i \in 1..Len(RequiredInputs) |-> CountLen(RequiredInputs[i][2])])
RequiredPriorities ==
    SumSeq([i \in 1..Len(RequiredInputs) |-> SectionPriority(RequiredInputs[i][1])])
RequiredOverflow == wPc = "done" /\ RequiredTokens > AvailableTokens(wMax)

\* C9: when the required sections' total tokens exceed available, the window
\* holds no optional section, and each required section in it has a size (the
\* measure of its body as placed in the window) of at most
\* floor(available * its priority / sum of the required priorities).
C9_RequiredQuota ==
    RequiredOverflow =>
        \A k \in 1..Len(wOut) :
            /\ wOut[k].required
            /\ wOut[k].name \in RequiredNames
            /\ CountLen(wOut[k].content) * RequiredPriorities
                  <= AvailableTokens(wMax) * wOut[k].priority

\* C10: every section declared required and present in the input appears in
\* the window, whole or truncated, for every max_tokens.
C10_RequiredIncluded ==
    wPc = "done" =>
        \A i \in 1..Len(RequiredInputs) :
            \E k \in 1..Len(wOut) : wOut[k].name = RequiredInputs[i][1]
\* C11: the total measured size of the section bodies placed in the window
\* returned by build_window, truncation markers included, never exceeds
\* available = max_tokens - response reserve.
BodyTokens ==
    SumSeq([k \in 1..Len(wOut) |-> CountLen(wOut[k].content)])
C11_WindowWithinAvailable ==
    wPc = "done" => BodyTokens <= AvailableTokens(wMax)
----------------------------------------------------------------------------
\* Properties of the store's read paths and of estimate_fit (checked under
\* Spec)

\* C15: no read path returns an item whose expiry has passed, even while it
\* still occupies storage: get_by_type, get_by_priority, get_recent, search
\* and get_window of the store, and estimate_fit of the window builder.
C15_NoReadPathReturnsExpired ==
    LET Live(s) == \A k \in 1..Len(s) : ~IsExpired(s[k], now)
    IN  /\ \A ty \in {"system", "user", "tool_result"} :
              Live(GetContextsByType(contexts, ty))
        /\ \A p \in {1, HighPriority} : Live(GetContextsByPriority(contexts, p))
        /\ \A n \in {0, 1} : Live(GetRecentContexts(contexts, 24, n, now))
        /\ \A q \in {"", "gamma"}, ty \in {"", "user"}, tg \in {<<>>, <<"t">>} :
              Live(SearchContexts(contexts, q, ty, tg, now))
        /\ \A b \in WindowBounds : Live(WindowItems(contexts, b, StoreMaxTokens, now))
        /\ \A w \in WindowSizes :
              Live(EstimateContextItemsFit(Values(contexts), 0, w).items)
----------------------------------------------------------------------------
\* Properties of the store's derived data (checked under SpecFields and Spec)

\* the ids of the items whose current type is one of types
IdsOfTypes(types) == {id \in DOMAIN contexts : contexts[id].type \in types}
\* list holds exactly the ids of ids, each once
ListsExactly(list, ids) ==
    /\ {list[i] : i \in 1..Len(list)} = ids
    /\ \A i, j \in 1..Len(list) : list[i] = list[j] => i = j

\* C16: after every store operation, each per-type index list holds exactly
\* the ids of the items in the item map whose current type belongs to that
\* category (system; user or assistant; memory; tool_result), each id once.
C16_CategoryListsConsistent ==
    /\ ListsExactly(system_contexts, IdsOfTypes({"system"}))
    /\ ListsExactly(conversation_contexts, IdsOfTypes({"user", "assistant"}))
    /\ ListsExactly(memory_contexts, IdsOfTypes({"memory"}))
    /\ ListsExactly(tool_contexts, IdsOfTypes({"tool_result"}))

\* C17: immediately after every add and every update, whichever fields the
\* update names (token_count included), the item's token_count equals the
\* measure of its current content.
C17_TokenCountMatchesContent ==
    LET id == IF ret.op = "add" THEN ret.value ELSE ret.arg
    IN  (ret.op \in {"add", "update"} /\ id \in DOMAIN contexts)
            => contexts[id].token_count = CountTokens(contexts[id].content)

\* C18: after every public store operation returns, an update that replaces
\* an item's content with longer content included, the total token_count of
\* the stored items is at most max_tokens.
C18_AlwaysWithinBudget == GetTotalTokens(contexts) <= StoreMaxTokens

\* C19: when an add makes the store's total tokens exceed max_tokens, the
\* items left in the store when add returns are exactly the items the
\* optimizer's hybrid strategy selects from the store's items with
\* target = 90% of max_tokens.
C19_AddEvictsAsHybrid ==
    \A a \in AddArgs :
        LET expiry == IF a[5] THEN now ELSE None
            inserted == AddContextIn(Store, nextId, a[1], a[2], a[3], a[4], expiry,
                                     ModelLimit, now).store.contexts
            left == AddContextIn(Store, nextId, a[1], a[2], a[3], a[4], expiry,
                                 StoreMaxTokens, now).store.contexts
            selected == OptimizeContexts(Values(inserted),
                                         EffectiveTarget(0, StoreMaxTokens),
                                         "hybrid", now).out
        IN  (nextId <= MaxAdds /\ GetTotalTokens(inserted) > StoreMaxTokens)
                => DOMAIN left = Ids(selected)

----------------------------------------------------------------------------
\* A further property of the optimizer (checked under SpecOpt)

\* C20: if the input's total token_count is at most the target, optimize is
\* a no-op for every strategy: the input items are returned unchanged (same
\* items, same order, no field modified), with tokens_after = tokens_before,
\* items_after = items_before and elapsed time 0.
C20_NoOpWithinTarget ==
    (oPc = "done" /\ TotalTokens(oItems) <= oTarget) =>
        /\ oOut = oItems /\ oIn = oItems
        /\ oMetrics.tokens_before = TotalTokens(oItems)
        /\ oMetrics.tokens_after = oMetrics.tokens_before
        /\ oMetrics.items_before = Len(oItems)
        /\ oMetrics.items_after = oMetrics.items_before
        /\ ~oMetrics.timed
\* an input of several items, not in priority order, within the target
C20_Witness ==
    /\ oPc = "done" /\ Len(oItems) >= 2 /\ TotalTokens(oItems) <= oTarget
    /\ oItems[1].priority < oItems[2].priority
    /\ oOut = oItems /\ oMetrics.items_after = Len(oItems)
----------------------------------------------------------------------------
\* Properties of the fields of stored items (checked under SpecFields)

\* C21: after any sequence of add and update calls, whatever the argument
\* values, every item held by the store has its priority within 1..10 and
\* its relevance_score within 0..1.
C21_FieldsWithinRanges ==
    \A k \in DOMAIN contexts :
        /\ contexts[k].priority \in 1..10
        /\ contexts[k].relevance_score \in 0..One

\* C22: every item stored under key k has id k, whatever fields update names.
C22_IdImmutable ==
    \A k \in DOMAIN contexts : contexts[k].id = k
----------------------------------------------------------------------------
\* Properties of the purge (checked under Spec)

\* C23: a purge pass removes exactly the items whose expiry has passed; every
\* other item keeps its fields, the remaining ids keep their relative order,
\* and a second purge at the same "now" changes nothing.
C23_PurgeExact ==
    [][ret'.op = "purge" =>
         LET live == {k \in DOMAIN contexts : ~IsExpired(contexts[k], now)}
         IN  /\ DOMAIN contexts' = live
             /\ \A k \in live : contexts'[k] = contexts[k]
             /\ context_order' = SelectSeq(context_order, LAMBDA k : k \in live)
             /\ RemoveExpiredContexts(Store', now') = Store']_vars
\* a purge that removed an expired item and left a live one
C23_Witness ==
    /\ ret.op = "purge" /\ ret.arg > 0
    /\ DOMAIN contexts # {}
----------------------------------------------------------------------------
\* Properties of the hybrid selection (checked under SpecOpt)

\* The active non-system items of the input in descending composite-score
\* order, and whether one of them is in the result as scored (not compressed).
HybridActive == FilterActiveContexts(oItems, oNow)
HybridScored ==
    CalculateCompositeScores(SelectSeq(HybridActive, LAMBDA c : c.type # "system"), oNow)
KeptUnchanged(c) == \E k \in 1..Len(oOut) : oOut[k] = c

\* C24: under hybrid, a non-system item reached in descending score order
\* (every higher-ranked one was added) is added unchanged whenever the system
\* items' tokens plus the tokens of the items already added plus its own
\* token_count are at most the target.
C24_FittingItemAdded ==
    HybridRan =>
        \A j \in 1..Len(HybridScored) :
            ( /\ \A i \in 1..(j - 1) : KeptUnchanged(HybridScored[i])
              /\ SystemTokens(HybridActive)
                   + TotalTokens(SubSeq(HybridScored, 1, j)) <= oTarget )
            => KeptUnchanged(HybridScored[j])

\* C25: under hybrid, once a non-system item in descending score order does
\* not fit, no lower-ranked item is added: the unmodified non-system items
\* of the result form a prefix of the score order.
C25_UnmodifiedArePrefix ==
    HybridRan =>
        \A j \in 1..Len(HybridScored) :
            KeptUnchanged(HybridScored[j])
                => \A i \in 1..(j - 1) : KeptUnchanged(HybridScored[i])
----------------------------------------------------------------------------
\* Properties of the compression fallback (checked under SpecOpt)

\* C26: for every content and every target of at least 50, the compression
\* fallback yields a result whose measured size is at most the target.
C26_CompressionFitsTarget ==
    (oPc = "done" /\ oTarget >= MinUsefulSize) =>
        \A i \in 1..Len(oItems) :
            LET r == TryCompressContext(oItems[i], oTarget)
            IN  /\ r # <<>>
                /\ CountTokens(r[1].content) <= oTarget
----------------------------------------------------------------------------
\* Properties of the single-key strategies (checked under SpecOpt)

StrategyRan(strategy) ==
    oPc = "done" /\ oStrategy = strategy /\ NeedsOptimization(oItems, oTarget)
HasTag(c, tag) == \E g \in 1..Len(c.tags) : c.tags[g] = tag

\* C27: the compression strategy returns the fitting prefix of the items in
\* descending (priority, timestamp) order, followed by at most one item: the
\* first overflowing one in compressed form, only when the room left exceeds
\* 100; no item ranked below the first overflowing one is returned.
C27_CompressionStopsAtOverflow ==
    StrategyRan("compression") =>
        LET sorted == SortDesc(oItems, PriorityKeys(oItems))
            b == FirstOverflow(sorted, 1, 0, oTarget)
        IN  /\ b.idx # 0
            /\ Len(oOut) \in {b.idx - 1, b.idx}
            /\ \A k \in 1..(b.idx - 1) : oOut[k] = sorted[k]
            /\ Len(oOut) = b.idx =>
                  /\ b.room > MinCompressRoom
                  /\ oOut[b.idx].id = sorted[b.idx].id
                  /\ HasTag(oOut[b.idx], "compressed")
                  /\ oOut[b.idx].token_count <= b.room
\* a run that kept a prefix and compressed the first overflowing item
C27_Witness ==
    /\ StrategyRan("compression")
    /\ Len(oOut) >= 2
    /\ HasTag(oOut[Len(oOut)], "compressed")
    /\ Len(oOut) < Len(oItems)

\* s is the longest prefix of sorted whose token counts sum to at most target
LongestFittingPrefix(s, sorted, target) ==
    /\ Len(s) <= Len(sorted)
    /\ s = SubSeq(sorted, 1, Len(s))
    /\ TotalTokens(s) <= target
    /\ Len(s) < Len(sorted) => TotalTokens(SubSeq(sorted, 1, Len(s) + 1)) > target

\* C28: when the input exceeds the target, priority_based returns exactly the
\* longest prefix of the items sorted descending by (priority, timestamp)
\* whose token counts sum to at most the target, and recency_based the same
\* for the items sorted descending by timestamp.
C28_LongestPrefix ==
    /\ StrategyRan("priority_based") =>
          LongestFittingPrefix(oOut, SortDesc(oItems, PriorityKeys(oItems)), oTarget)
    /\ StrategyRan("recency_based") =>
          LongestFittingPrefix(oOut,
              SortDesc(oItems, [i \in 1..Len(oItems) |-> <<oItems[i].timestamp>>]),
              oTarget)
\* a priority_based run that reordered the input, kept some items and cut
\* before a later item that would still have fitted
C28_Witness ==
    /\ StrategyRan("priority_based")
    /\ Len(oOut) >= 1 /\ oOut[1].id # 1
    /\ \E i \in 1..Len(oItems) :
          /\ oItems[i].id \notin Ids(oOut)
          /\ TotalTokens(oOut) + oItems[i].token_count <= oTarget

\* The items as relevance_based leaves them (scores updated), in descending
\* relevance order, restricted to those at or above the threshold.
RelevanceEligible ==
    SelectSeq(SortDesc(oIn, [i \in 1..Len(oIn) |-> <<oIn[i].relevance_score>>]),
              LAMBDA c : c.relevance_score >= RelevanceThreshold)

\* C29: relevance_based fills greedily over the items of relevance_score at
\* least 0.5 in descending relevance order: the result stays within the
\* target and no item is included after a higher-ranked eligible item that
\* did not fit.
C29_RelevancePrefix ==
    StrategyRan("relevance_based") =>
        /\ TotalTokens(oOut) <= oTarget
        /\ \A j \in 1..Len(RelevanceEligible) :
              KeptUnchanged(RelevanceEligible[j])
                  => \A i \in 1..(j - 1) : KeptUnchanged(RelevanceEligible[i])

\* The grouping the claim names: type and sorted tag list; an item is a
\* representative when no item of its group has a greater
\* (priority, relevance_score, timestamp).
SameGroup(a, b) == a.type = b.type /\ SortedTags(a.tags) = SortedTags(b.tags)
IsRepresentative(c) ==
    \A i \in 1..Len(oItems) :
        SameGroup(oItems[i], c) => ~LexGt(SemanticKey(oItems[i]), SemanticKey(c))
Unrepresented ==
    {i \in 1..Len(oItems) :
        /\ IsRepresentative(oItems[i])
        /\ \A k \in 1..Len(oOut) : ~SameGroup(oOut[k], oItems[i])}

\* C30: semantic_grouping groups two items together exactly when they have
\* the same type and the same sorted tag list; it returns at most one item
\* per group, the member with the greatest (priority, relevance_score,
\* timestamp), taking groups in descending order of that member's priority
\* until the first one that does not fit.
C30_OnePerGroupByPriority ==
    StrategyRan("semantic_grouping") =>
        /\ \A k \in 1..Len(oOut) :
              /\ \E i \in 1..Len(oItems) : oItems[i] = oOut[k]
              /\ IsRepresentative(oOut[k])
        /\ \A k, l \in 1..Len(oOut) :
              k < l => /\ ~SameGroup(oOut[k], oOut[l])
                       /\ oOut[k].priority >= oOut[l].priority
        /\ TotalTokens(oOut) <= oTarget
        /\ Unrepresented # {} =>
              \E j \in Unrepresented :
                  /\ \A i \in Unrepresented : oItems[i].priority <= oItems[j].priority
                  /\ \A k \in 1..Len(oOut) : oOut[k].priority >= oItems[j].priority
                  /\ TotalTokens(oOut) + oItems[j].token_count > oTarget
----------------------------------------------------------------------------
\* Properties of the optional sections of a window (checked under SpecWin)

\* the optional sections of the input in descending priority order
OptionalSorted ==
    LET optional == SelectSeq(wSections, LAMBDA s : s[1] \notin RequiredNames)
        secs == [i \in 1..Len(optional) |->
                    WindowSection(optional[i][1], optional[i][2], FALSE)]
    IN  SortDesc(secs, [i \in 1..Len(secs) |-> <<secs[i].priority>>])
RequiredFit == wPc = "done" /\ RequiredTokens <= AvailableTokens(wMax)

----------------------------------------------------------------------------
\* Properties of the score updates (checked under SpecOpt)

\* C32: when relevance_based or hybrid runs, the relevance_score of each item
\* it scores is overwritten with the composite score, for selected and
\* unselected items alike; under hybrid the system items and the items the
\* expiry/age filter removed keep their previous relevance_score.
C32_ScoresOverwrittenWithComposite ==
    /\ StrategyRan("relevance_based") =>
          \A i \in 1..Len(oItems) :
              oIn[i].relevance_score = CompositeScore(oItems[i], oNow)
    /\ StrategyRan("hybrid") =>
          \A i \in 1..Len(oItems) :
              oIn[i].relevance_score =
                  IF /\ IsActive(oItems[i], oNow) /\ oItems[i].type # "system"
                     /\ SystemTokens(HybridActive) < oTarget
                  THEN CompositeScore(oItems[i], oNow)
                  ELSE oItems[i].relevance_score

\* C33: the compression fallback stops at the first step whose result fits
\* the target: content that fits after whitespace collapsing alone is
\* returned with its filler words intact, and content that fits after
\* filler-word removal is returned without truncation or marker.
C33_CompressionStopsAtFirstFit ==
    oPc = "done" =>
        \A i \in 1..Len(oItems) :
            LET c == oItems[i].content
                collapsed == [c EXCEPT !.ws = 0]
                stripped == [collapsed EXCEPT !.fill = 0]
                r == CompressContent(c, oTarget)
            IN  CountTokens(c) > oTarget =>
                    /\ CountTokens(collapsed) <= oTarget => r = collapsed
                    /\ (CountTokens(collapsed) > oTarget
                        /\ CountTokens(stripped) <= oTarget) => r = stripped
----------------------------------------------------------------------------
\* Properties of the returned items (checked under SpecOpt)

\* C34: for every strategy, each returned item carries the id of a distinct
\* input item, and at most one returned item differs from its input
\* counterpart (the input item as the call leaves it): the compressed
\* boundary item, which is the last element of the result.
C34_OnlyLastItemDiffers ==
    oPc = "done" =>
        /\ \A k \in 1..Len(oOut) : oOut[k].id \in Ids(oIn)
        /\ \A k, l \in 1..Len(oOut) : k # l => oOut[k].id # oOut[l].id
        /\ \A k \in 1..Len(oOut) :
              (\A i \in 1..Len(oIn) : oIn[i] # oOut[k])
                  => k = Len(oOut) /\ HasTag(oOut[k], "compressed")
\* a hybrid run whose result ends with a compressed item after a whole one
C34_Witness ==
    /\ StrategyRan("hybrid")
    /\ Len(oOut) >= 2
    /\ HasTag(oOut[Len(oOut)], "compressed")
    /\ \E i \in 1..Len(oIn) : oIn[i] = oOut[1]
----------------------------------------------------------------------------
\* Properties of the store's eviction (checked under Spec)

\* C35: when add returns an id, the item with that id is in the store: the
\* auto-optimization triggered by that add never evicts the item just added.
C35_AddedItemStored ==
    ret.op = "add" => ret.value \in DOMAIN contexts

\* C36: optimize_context, when the store exceeds the target, keeps exactly
\* the longest fitting prefix of the non-expired items in descending
\* (priority, timestamp) order: no item remains while a non-expired item
\* ranked above it has been evicted, and every item ranked below the first
\* one that does not fit is evicted.
C36_EvictionKeepsPrefix ==
    [][ret'.op = "optimize" =>
         LET target == EffectiveTarget(ret'.arg, StoreMaxTokens)
             vals == Values(contexts)
             live == SelectSeq(vals, LAMBDA c : ~IsExpired(c, now))
             kept == Values(contexts')
         IN  TotalTokens(vals) > target =>
                 LongestFittingPrefix(SortDesc(kept, PriorityKeys(kept)),
                                      SortDesc(live, PriorityKeys(live)), target)]_vars
----------------------------------------------------------------------------
\* Properties of expired items (checked under SpecExpiry)

\* the ids get_context_window and search_contexts serve from ctxs at time t
ServedIds(ctxs, t) ==
    Ids(WindowItems(ctxs, 0, StoreMaxTokens, t)) \cup Ids(SearchContexts(ctxs, "", "", <<>>, t))

\* C37: an expired item never becomes live again: an item whose expiry has
\* passed is not in the get_window or search results after the next store
\* operation either, update included.
C37_ExpiredStaysDead ==
    [][\A id \in DOMAIN contexts :
          IsExpired(contexts[id], now) => id \notin ServedIds(contexts', now')]_vars
----------------------------------------------------------------------------
\* Frame and range properties of the optimizer (checked under SpecOpt)

\* C38: priority_based, recency_based, compression and semantic_grouping
\* never modify any field of an input item: after the call the input list
\* holds the items it held before, the one returned in compressed form
\* included.
C38_InputsUntouched ==
    (oPc = "done" /\ oStrategy \in {"priority_based", "recency_based",
                                    "compression", "semantic_grouping"})
        => oIn = oItems
\* a compression run that returned a compressed item
C38_Witness ==
    /\ StrategyRan("compression")
    /\ \E k \in 1..Len(oOut) :
          /\ HasTag(oOut[k], "compressed")
          /\ \E i \in 1..Len(oIn) :
                /\ oIn[i].id = oOut[k].id
                /\ ~HasTag(oIn[i], "compressed")
                /\ oIn[i].token_count > oOut[k].token_count

\* C39: if every input item has priority in 1..10, relevance_score in 0..1
\* and a timestamp not later than "now", then after a hybrid optimization
\* every item's relevance_score (the composite score, and the 0.9 penalty of
\* a compressed item) is in 0..1 and a compressed item's priority is in
\* 1..10; the scoring and the compression are also applied to every input
\* item with both ends of the priority and of the relevance range.
InRanges(c) == c.priority \in 1..10 /\ c.relevance_score \in 0..One
C39_HybridKeepsRanges ==
    (/\ oPc = "done" /\ oStrategy = "hybrid"
     /\ \A i \in 1..Len(oItems) : InRanges(oItems[i]) /\ oItems[i].timestamp <= oNow)
        => /\ \A i \in 1..Len(oIn) : InRanges(oIn[i])
           /\ \A k \in 1..Len(oOut) : InRanges(oOut[k])
           /\ \A i \in 1..Len(oItems), p \in {1, 10}, rel \in {0, One} :
                 LET c == WithCompositeScore(
                              [oItems[i] EXCEPT !.priority = p, !.relevance_score = rel],
                              oNow)
                     r == TryCompressContext(c, Max(oTarget, MinUsefulSize))
                 IN  /\ InRanges(c)
                     /\ r # <<>> => InRanges(r[1])
\* a hybrid run that returned a compressed item with the penalties applied
C39_Witness ==
    /\ StrategyRan("hybrid")
    /\ \E k \in 1..Len(oOut), i \in 1..Len(oIn) :
          /\ HasTag(oOut[k], "compressed")
          /\ oIn[i].id = oOut[k].id
          /\ oOut[k].priority = oIn[i].priority - 1
          /\ oOut[k].relevance_score < oIn[i].relevance_score
----------------------------------------------------------------------------
\* Termination of the section truncation (checked under SpecTrunc)

\* C40: the 10%-shrink loop of _truncate_section terminates for every
\* content and every quota of at least 50: each round strictly shortens the
\* text, and the call eventually returns.
C40_ShrinkLoopTerminates ==
    /\ [][(tPc = "loop" /\ tPc' = "loop") => tContent' < tContent]_vars
    /\ (tPc = "loop" /\ tQuota >= MinUsefulSize) ~> (tPc = "done")
\* a call that returned after at least two rounds of the loop
C40_Witness ==
    /\ tPc = "done" /\ tQuota >= MinUsefulSize
    /\ CountLen(tContent) <= tQuota
    /\ tContent < (tSection * 9) \div 10

====
